---- MODULE Spec2Model ----
(***************************************************************************)
(* A model of tournament.py, a Swiss-system tournament kept in a           *)
(* PostgreSQL database: the players and match_history tables, the          *)
(* recorder operations (reportMatch, reportBye, deleteMatches), the        *)
(* standings read and the pairing loop of swissPairings.                   *)
(*                                                                         *)
(* players is the players table in insertion order (ids are serial, so     *)
(* the i-th row has id i); match_history is the bag of (winner_id,         *)
(* loser_id) rows.  Both hold COMMITTED data only: a handler's statements  *)
(* run in a transaction that reaches the tables at db.commit().            *)
(***************************************************************************)
EXTENDS Integers, Sequences, FiniteSets, Bags

VARIABLES players, match_history, last, pc, i, pairs

vars == <<players, match_history, last, pc, i, pairs>>

(* ---------------------------- bounds ----------------------------------- *)

\* Players that may be registered under Spec.
MaxPlayers == 3

\* Rows of match_history under Spec.
MaxMatches == 2

\* Players the simulated tournament (HarnessSpec) may start with.
MaxHarnessPlayers == 5

\* Rounds the simulated tournament plays (the script's loop plays 3).
MaxRounds == 4

(* --------------------------- constants --------------------------------- *)

\* loser_id of a bye row (reportBye, query2).
BYE == -1


\* An id the serial column never hands out, next to the not-yet-registered ones.
PlayerArgs == 0..MaxPlayers

(* ----------------------- Python list helpers --------------------------- *)

\* s[idx] with Python's 0-based index; a negative idx counts from the end.
PyIndex(s, idx) == IF idx >= 0 THEN s[idx + 1] ELSE s[Len(s) + idx + 1]

\* s after s.pop(idx).
PyPop(s, idx) ==
    LET at == IF idx >= 0 THEN idx + 1 ELSE Len(s) + idx + 1
    IN  [n \in 1..(Len(s) - 1) |-> IF n < at THEN s[n] ELSE s[n + 1]]

(* ------------------------------ Store ---------------------------------- *)

Ids(ps) == {ps[n].id : n \in DOMAIN ps}

\* The row INSERT INTO players (name) creates: serial id, counters at default.
newPlayer(id) == [id |-> id, wins |-> 0, losses |-> 0, matches_played |-> 0]

\* INSERT INTO match_history (winner_id, loser_id): the table takes any pair of
\* integers (loser_id = -1 is a bye, so the columns reference no player row).
insertMatch(h, winner, loser) == h (+) SetToBag({<<winner, loser>>})

Row(ps, id) == ps[CHOOSE n \in DOMAIN ps : ps[n].id = id]

\* The wins column of player id (0 for an id with no row).
winsOf(ps, id) == IF id \in Ids(ps) THEN Row(ps, id).wins ELSE 0

(* -------------------------- History Oracle ----------------------------- *)

\* checkBye with the columns swapped: rows (-1, p1).
checkBye_asLoser(h, p1) == CopiesIn(<<BYE, p1>>, h) # 0

\* checkBye: count(*) of rows (p1, -1) is not zero.
checkBye(h, p1) == CopiesIn(<<p1, BYE>>, h) # 0

rematchCount(h, p1, p2) ==
    IF p1 = p2 THEN CopiesIn(<<p1, p1>>, h)
    ELSE CopiesIn(<<p1, p2>>, h) + CopiesIn(<<p2, p1>>, h)

\* rematchCheck: count(*) of rows (p1,p2) or (p2,p1) is not zero.
rematchCheck(h, p1, p2) == rematchCount(h, p1, p2) # 0

(* ----------------------- Standings Calculator -------------------------- *)

\* The matches p has played against q, as winner or as loser.
faced(h, p, q) == CopiesIn(<<p, q>>, h) + CopiesIn(<<q, p>>, h)

\* OMW: the sum of the wins of every opponent p has faced, match by match (a
\* bye row, or a row naming no registered player, adds nothing).
RECURSIVE omwSum(_, _, _, _)
omwSum(ps, h, p, n) ==
    IF n = 0 THEN 0
    ELSE faced(h, p, ps[n].id) * ps[n].wins + omwSum(ps, h, p, n - 1)

omw(ps, h, p) == omwSum(ps, h, p, Len(ps))

\* A standings row (id, wins, matches); the name plays no part in any decision.
entry(row) == <<row.id, row.wins, row.matches_played>>

\* Row m comes before row n: by the first key, then by the second, both
\* descending, then in table order.
before(key, m, n) ==
    \/ key[m][1] > key[n][1]
    \/ key[m][1] = key[n][1] /\ key[m][2] > key[n][2]
    \/ key[m] = key[n] /\ m < n

\* The rows of ps as entries, ordered by their keys.
ordered(ps, key) ==
    [r \in 1..Len(ps) |->
        entry(ps[CHOOSE n \in 1..Len(ps) :
                    Cardinality({m \in 1..Len(ps) : before(key, m, n)}) = r - 1])]

\* The player_standings view: every player, by wins then OMW, both descending,
\* ties in table order.  It has no rows while match_history is empty.
player_standings(ps, h) ==
    IF h = EmptyBag THEN <<>>
    ELSE \* (the keys are bound, so that the OMW column is computed once)
         CHOOSE s \in {ordered(ps, key) :
                        key \in {[n \in 1..Len(ps) |->
                                    <<ps[n].wins, omw(ps, h, ps[n].id)>>]}} : TRUE

\* query2 of playerStandings: the players ORDER BY wins DESC.
playersByWins(ps) == ordered(ps, [n \in 1..Len(ps) |-> <<ps[n].wins, 0>>])

\* playerStandings without the second query: the view's rows as they are.
playerStandings_viewOnly(ps, h) == player_standings(ps, h)

\* playerStandings with the second query alone: ORDER BY wins, never by OMW.
playerStandings_winsOnly(ps, h) == playersByWins(ps)

\* playerStandings(): the view's rows, or query2's when the view has none.
playerStandings(ps, h) ==
    LET standings == player_standings(ps, h)
    IN  IF Len(standings) = 0 THEN playersByWins(ps) ELSE standings

(* --------------------------- Match Recorder ---------------------------- *)

\* What a handler's connection leaves in the tables: [players, match_history].
Store(ps, h) == [players |-> ps, match_history |-> h]

\* updateWinner without its matches_played = matches_played + 1.
updateWinner_winsOnly(ps, winner) ==
    [n \in DOMAIN ps |->
        IF ps[n].id = winner THEN [ps[n] EXCEPT !.wins = @ + 1] ELSE ps[n]]

\* UPDATE players SET wins = wins + 1, matches_played = matches_played + 1
\* WHERE id = winner (no row is touched when no row has that id).
updateWinner(ps, winner) ==
    [n \in DOMAIN ps |->
        IF ps[n].id = winner
        THEN [ps[n] EXCEPT !.wins = @ + 1, !.matches_played = @ + 1]
        ELSE ps[n]]

\* updateLoser without its matches_played = matches_played + 1.
updateLoser_lossesOnly(ps, loser) ==
    [n \in DOMAIN ps |->
        IF ps[n].id = loser THEN [ps[n] EXCEPT !.losses = @ + 1] ELSE ps[n]]

\* UPDATE players SET losses = losses + 1, matches_played = matches_played + 1
\* WHERE id = loser.
updateLoser(ps, loser) ==
    [n \in DOMAIN ps |->
        IF ps[n].id = loser
        THEN [ps[n] EXCEPT !.losses = @ + 1, !.matches_played = @ + 1]
        ELSE ps[n]]

\* rollback with every statement committed as it is executed.
rollback_autocommit(st, tx) == tx

\* A connection dropped before db.commit(): its statements are rolled back and
\* the tables keep the committed data st; tx, the uncommitted work, is lost.
rollback(st, tx) == st

\* SELECT name FROM players WHERE id = %s; fetchone()[0] raises on no row.
nameFound(ps, id) == id \in Ids(ps)

\* reportMatchTx with the row written over the table instead of added to it.
reportMatchTx_overwrite(st, winner, loser, n) ==
    Store(IF n >= 2 THEN updateLoser(updateWinner(st.players, winner), loser)
          ELSE IF n >= 1 THEN updateWinner(st.players, winner)
          ELSE st.players,
          IF n >= 3 THEN SetToBag({<<winner, loser>>}) ELSE st.match_history)

\* The transaction of reportMatch after its first n statements
\* (query1, query2, query3 in the order they are executed).
reportMatchTx(st, winner, loser, n) ==
    LET ps1 == IF n >= 1 THEN updateWinner(st.players, winner) ELSE st.players
        ps2 == IF n >= 2 THEN updateLoser(ps1, loser) ELSE ps1
        h3  == IF n >= 3 THEN insertMatch(st.match_history, winner, loser)
               ELSE st.match_history
    IN  Store(ps2, h3)

\* reportMatch(winner, loser).  fail = 0: the Store answers every statement;
\* fail = n in 1..5: the n-th execute raises (the connection is lost).  The two
\* name lookups (statements 4 and 5) raise by themselves on an unknown id.
\* Returns the outcome and the Store the call leaves.
reportMatch(st, winner, loser, fail) ==
    LET raisedAt ==
            IF fail # 0 THEN fail
            ELSE IF ~nameFound(st.players, winner) THEN 4
            ELSE IF ~nameFound(st.players, loser) THEN 5
            ELSE 0
    IN  IF raisedAt # 0
        THEN [outcome |-> "error",
              store |-> rollback(st, reportMatchTx(st, winner, loser, raisedAt - 1))]
        ELSE [outcome |-> "ok", store |-> reportMatchTx(st, winner, loser, 3)]

\* reportByeTx with every player's row updated: the UPDATE has no WHERE.
reportByeTx_noWhere(st, winner, n) ==
    Store(IF n >= 1
          THEN [m \in DOMAIN st.players |->
                   [st.players[m] EXCEPT !.wins = @ + 1, !.matches_played = @ + 1]]
          ELSE st.players,
          IF n >= 2 THEN insertMatch(st.match_history, winner, BYE)
          ELSE st.match_history)

\* The transaction of reportBye after its first n statements (query1, query2).
reportByeTx(st, winner, n) ==
    LET ps1 == IF n >= 1 THEN updateWinner(st.players, winner) ELSE st.players
        h2  == IF n >= 2 THEN insertMatch(st.match_history, winner, BYE)
               ELSE st.match_history
    IN  Store(ps1, h2)

\* reportBye(winner); fail as for reportMatch, over its two statements.
reportBye(st, winner, fail) ==
    IF fail # 0
    THEN [outcome |-> "error",
          store |-> rollback(st, reportByeTx(st, winner, fail - 1))]
    ELSE [outcome |-> "ok", store |-> reportByeTx(st, winner, 2)]

\* deleteMatches without the UPDATE of the counters.
deleteMatches_historyOnly(st, fail) ==
    IF fail = 0 THEN [outcome |-> "ok", store |-> Store(st.players, EmptyBag)]
    ELSE [outcome |-> "error", store |-> st]

\* deleteMatches: two statements, each committed on its own.  fail = 1: the
\* first execute raises; fail = 2: the second one does, after the first commit.
deleteMatches(st, fail) ==
    LET reset == [n \in DOMAIN st.players |->
                    [st.players[n] EXCEPT !.wins = 0, !.losses = 0,
                                          !.matches_played = 0]]
    IN  IF fail = 1 THEN [outcome |-> "error", store |-> st]
        ELSE IF fail = 2
        THEN [outcome |-> "error", store |-> Store(reset, st.match_history)]
        ELSE [outcome |-> "ok", store |-> Store(reset, EmptyBag)]

\* registerPlayer(name): one INSERT, committed.
registerPlayer(st) ==
    Store(Append(st.players, newPlayer(Len(st.players) + 1)), st.match_history)

\* A standings read that awards the bye of an odd field, as the pairing does.
standingsRead_awardsBye(st) ==
    LET standings == playerStandings(st.players, st.match_history)
    IN  [ret |-> standings,
         store |-> IF Len(standings) % 2 # 0
                   THEN Store(updateWinner(st.players, standings[Len(standings)][1]),
                              st.match_history)
                   ELSE st]

\* One call of playerStandings on the tables st: the list it returns and the
\* tables it leaves.  It executes SELECTs only and closes without a commit.
standingsRead(st) ==
    [ret |-> playerStandings(st.players, st.match_history), store |-> st]

(* --------------------------- Pairing Engine ---------------------------- *)

\* byeScan with `if` for `while`: the scan moves up one place at most.
byeScan_once(standings, h, k) ==
    IF /\ checkBye(h, PyIndex(standings, Len(standings) - k)[1])
       /\ Len(standings) - k >= 0
    THEN k + 1
    ELSE k

\* byeScan with the bound strict: len(standings) - k > 0, so that the scan
\* stops on the first entry and never wraps round to the last.
RECURSIVE byeScan_strictBound(_, _, _)
byeScan_strictBound(standings, h, k) ==
    IF /\ checkBye(h, PyIndex(standings, Len(standings) - k)[1])
       /\ Len(standings) - k > 0
    THEN byeScan_strictBound(standings, h, k + 1)
    ELSE k

\* The bye scan: k after
\*   while checkBye(standings[len(standings)-k][0]) and len(standings)-k >= 0: k+=1
\* started at k.  The index is read before the bound is tested; at
\* k = len(standings)+1 it is -1, which Python reads as the last entry.
RECURSIVE byeScan(_, _, _)
byeScan(standings, h, k) ==
    IF /\ checkBye(h, PyIndex(standings, Len(standings) - k)[1])
       /\ Len(standings) - k >= 0
    THEN byeScan(standings, h, k + 1)
    ELSE k

\* rematchScan without the scan: the head takes the next player.
rematchScan_none(standings, h, j) == j

\* rematchScan without the rematchCheck: the scan runs to the last player.
rematchScan_toEnd(standings, h, j) ==
    IF Len(standings) - 1 > j THEN Len(standings) - 1 ELSE j

\* rematchScan with the bound one short: j < len(standings)-2.
RECURSIVE rematchScan_shortBound(_, _, _)
rematchScan_shortBound(standings, h, j) ==
    IF /\ j < Len(standings) - 2
       /\ rematchCheck(h, PyIndex(standings, 0)[1], PyIndex(standings, j)[1])
    THEN rematchScan_shortBound(standings, h, j + 1)
    ELSE j

\* The rematch scan: j after
\*   while j < len(standings)-1 and rematchCheck(standings[0][0], standings[j][0]): j+=1
\* started at j.
RECURSIVE rematchScan(_, _, _)
rematchScan(standings, h, j) ==
    IF /\ j < Len(standings) - 1
       /\ rematchCheck(h, PyIndex(standings, 0)[1], PyIndex(standings, j)[1])
    THEN rematchScan(standings, h, j + 1)
    ELSE j

\* removePair with pop(0) twice: the head and the next player leave the list.
removePair_next(work, j) == PyPop(PyPop(work, 0), 0)

\* standings.pop(0); standings.pop(j-1)
removePair(work, j) == PyPop(PyPop(work, 0), j - 1)

\* makePair with the two players the other way round.
makePair_swapped(work, j) == <<PyIndex(work, j)[1], PyIndex(work, 0)[1]>>

\* temp = (standings[0][0], standings[0][1], standings[j][0], standings[j][1]),
\* without the names.
makePair(work, j) == <<PyIndex(work, 0)[1], PyIndex(work, j)[1]>>

\* One pass of the body of `while len(standings) > 0`, from the loop state w:
\* the working list, the Store, the pairs made, and (for the properties) the
\* byes recorded and, per pair, the working list it was picked from and j.
\* standings[0] on a list the bye has emptied raises IndexError.
pairingPass(w) ==
    LET odd   == Len(w.standings) % 2 # 0
        k     == byeScan(w.standings, w.store.match_history, 1)
        byeTo == PyIndex(w.standings, Len(w.standings) - k)[1]
        store == IF odd THEN reportBye(w.store, byeTo, 0).store ELSE w.store
        byes  == IF odd THEN Append(w.byes, byeTo) ELSE w.byes
        work  == IF odd THEN PyPop(w.standings, Len(w.standings) - k)
                 ELSE w.standings
        j     == rematchScan(work, store.match_history, 1)
    IN  IF Len(work) = 0
        THEN [w EXCEPT !.standings = work, !.store = store, !.byes = byes,
                       !.outcome = "error"]
        ELSE [w EXCEPT !.standings = removePair(work, j),
                       !.store = store, !.byes = byes,
                       !.ret = Append(@, makePair(work, j)),
                       !.steps = Append(@, [work |-> [n \in DOMAIN work |-> work[n][1]],
                                            j |-> j])]

RECURSIVE pairingLoop(_)
pairingLoop(w) ==
    IF w.outcome = "ok" /\ Len(w.standings) > 0
    THEN pairingLoop(pairingPass(w))
    ELSE w

\* swissPairings(): the pairs as (id1, id2), and the Store the call leaves.
swissPairings(st) ==
    pairingLoop([standings |-> playerStandings(st.players, st.match_history),
                 store |-> st, ret |-> <<>>, byes |-> <<>>, steps |-> <<>>,
                 outcome |-> "ok"])

\* determineWinner(p1, p2); coin is random.random() > .5.
determineWinner(p1, p2, coin) == IF coin THEN <<p1, p2>> ELSE <<p2, p1>>

(* ------------------------------ state ---------------------------------- *)

\* The call that made the last step: its name, arguments, outcome ("ok", or
\* "error" when it raised) and, for swissPairings, what pairingLoop reports.
Call(op, args, outcome) ==
    [op |-> op, args |-> args, outcome |-> outcome,
     ret |-> <<>>, byes |-> <<>>, steps |-> <<>>]

PairingCall(w) ==
    [op |-> "swissPairings", args |-> <<>>, outcome |-> w.outcome,
     ret |-> IF w.outcome = "ok" THEN w.ret ELSE <<>>,
     byes |-> w.byes, steps |-> w.steps]

Committed == Store(players, match_history)

Commit(st) == players' = st.players /\ match_history' = st.match_history

\* The tables after the schema is loaded: no player, no match.
Init ==
    /\ players = <<>>
    /\ match_history = EmptyBag
    /\ last = Call("init", <<>>, "ok")
    /\ pc = "idle"
    /\ i = 0
    /\ pairs = <<>>

RegisterPlayer ==
    /\ Len(players) < MaxPlayers
    /\ Commit(registerPlayer(Committed))
    /\ last' = Call("registerPlayer", <<>>, "ok")
    /\ UNCHANGED <<pc, i, pairs>>

ReportMatch ==
    /\ BagCardinality(match_history) < MaxMatches
    /\ \E winner \in PlayerArgs, loser \in PlayerArgs, fail \in 0..5 :
         \E r \in {reportMatch(Committed, winner, loser, fail)} :
             /\ Commit(r.store)
             /\ last' = Call("reportMatch", <<winner, loser>>, r.outcome)
    /\ UNCHANGED <<pc, i, pairs>>

ReportBye ==
    /\ BagCardinality(match_history) < MaxMatches
    /\ \E winner \in PlayerArgs, fail \in 0..2 :
         \E r \in {reportBye(Committed, winner, fail)} :
             /\ Commit(r.store)
             /\ last' = Call("reportBye", <<winner>>, r.outcome)
    /\ UNCHANGED <<pc, i, pairs>>

SwissPairings ==
    /\ BagCardinality(match_history) < MaxMatches
    /\ \E w \in {swissPairings(Committed)} :
           /\ Commit(w.store)
           /\ last' = PairingCall(w)
    /\ UNCHANGED <<pc, i, pairs>>

PlayerStandings ==
    /\ \E r \in {standingsRead(Committed)} :
           /\ Commit(r.store)
           /\ last' = [Call("playerStandings", <<>>, "ok") EXCEPT !.ret = r.ret]
    /\ UNCHANGED <<pc, i, pairs>>

DeleteMatches ==
    /\ \E fail \in 0..2 :
         \E r \in {deleteMatches(Committed, fail)} :
             /\ Commit(r.store)
             /\ last' = Call("deleteMatches", <<>>, r.outcome)
    /\ UNCHANGED <<pc, i, pairs>>

Next ==
    \/ RegisterPlayer
    \/ ReportMatch
    \/ ReportBye
    \/ SwissPairings
    \/ DeleteMatches
    \/ PlayerStandings

Spec == Init /\ [][Next]_vars

(* ------------- calls that complete, with registered ids --------------- *)

\* reportMatch(winner, loser) between registered players, no statement failing.
ValidReportMatch ==
    /\ BagCardinality(match_history) < MaxMatches
    /\ \E winner \in Ids(players), loser \in Ids(players) :
         \E r \in {reportMatch(Committed, winner, loser, 0)} :
             /\ Commit(r.store)
             /\ last' = Call("reportMatch", <<winner, loser>>, r.outcome)
    /\ UNCHANGED <<pc, i, pairs>>

\* reportBye(winner) for a registered player, no statement failing.
ValidReportBye ==
    /\ BagCardinality(match_history) < MaxMatches
    /\ \E winner \in Ids(players) :
         \E r \in {reportBye(Committed, winner, 0)} :
             /\ Commit(r.store)
             /\ last' = Call("reportBye", <<winner>>, r.outcome)
    /\ UNCHANGED <<pc, i, pairs>>

\* deleteMatches(), both statements committed.
ValidDeleteMatches ==
    /\ \E r \in {deleteMatches(Committed, 0)} :
           /\ Commit(r.store)
           /\ last' = Call("deleteMatches", <<>>, r.outcome)
    /\ UNCHANGED <<pc, i, pairs>>

ValidNext ==
    \/ RegisterPlayer
    \/ ValidReportMatch
    \/ ValidReportBye
    \/ SwissPairings
    \/ ValidDeleteMatches

ValidSpec == Init /\ [][ValidNext]_vars

(* ---------------------- the simulated tournament ----------------------- *)

RECURSIVE registerAll(_, _)
registerAll(st, n) == IF n = 0 THEN st ELSE registerPlayer(registerAll(st, n - 1))

\* After deleteMatches(), deletePlayers() and the registerPlayer calls.
HarnessInit ==
    /\ \E n \in 0..MaxHarnessPlayers :
         players = registerAll(Store(<<>>, EmptyBag), n).players
    /\ match_history = EmptyBag
    /\ last = Call("init", <<>>, "ok")
    /\ pc = "pairing"
    /\ i = 0
    /\ pairs = <<>>

\* The next index of `for i in range(0,3)`, or the end of the loop.
NextRound(round) ==
    /\ i' = round + 1
    /\ pc' = IF round + 1 < MaxRounds THEN "pairing" ELSE "done"

\* pairs = swissPairings(); an exception ends the script.
HarnessPairings ==
    /\ pc = "pairing"
    /\ \E w \in {swissPairings(Committed)} :
           /\ Commit(w.store)
           /\ last' = PairingCall(w)
           /\ IF w.outcome = "error"
              THEN pc' = "crashed" /\ UNCHANGED <<i, pairs>>
              ELSE /\ pairs' = w.ret
                   /\ IF w.ret = <<>> THEN NextRound(i)
                      ELSE pc' = "reporting" /\ UNCHANGED i

\* One pass of `for pair in pairs`: determineWinner, then reportMatch.
HarnessReport ==
    /\ pc = "reporting"
    /\ \E coin \in BOOLEAN :
         \E results \in {determineWinner(Head(pairs)[1], Head(pairs)[2], coin)} :
         \E r \in {reportMatch(Committed, results[1], results[2], 0)} :
             /\ Commit(r.store)
             /\ last' = Call("reportMatch", results, r.outcome)
    /\ pairs' = Tail(pairs)
    /\ IF Tail(pairs) = <<>> THEN NextRound(i) ELSE UNCHANGED <<pc, i>>

HarnessNext == HarnessPairings \/ HarnessReport

HarnessSpec == HarnessInit /\ [][HarnessNext]_vars

(* ============================ properties =============================== *)

N == Len(players)

IsPairing == last.op = "swissPairings"

\* The ids of the pairs of ret, first and second members, as one sequence.
Members(ret) == [n \in 1..(2 * Len(ret)) |-> ret[(n + 1) \div 2][2 - (n % 2)]]

\* How many places of the pairs of ret hold player p.
Occurrences(ret, p) == Cardinality({n \in DOMAIN Members(ret) : Members(ret)[n] = p})

Byes(h, p) == CopiesIn(<<p, BYE>>, h)

\* C1: for every player count N and every match history, one call of
\* swissPairings returns (N-1)/2 pairs and records exactly one bye when N is
\* odd, and returns N/2 pairs and records no bye when N is even.
C1_PairAndByeCounts ==
    IsPairing =>
        /\ last.outcome = "ok"
        /\ N % 2 = 1 => Len(last.ret) = (N - 1) \div 2 /\ Len(last.byes) = 1
        /\ N % 2 = 0 => Len(last.ret) = N \div 2 /\ Len(last.byes) = 0

\* C5: swissPairings with no registered player returns an empty list; with
\* exactly one it records a bye for that player and returns an empty list,
\* completing normally.
C5_ZeroOrOnePlayer ==
    IsPairing /\ N <= 1 =>
        /\ last.outcome = "ok"
        /\ last.ret = <<>>
        /\ last.byes = IF N = 1 THEN <<players[1].id>> ELSE <<>>

\* C7: after any sequence of registerPlayer, reportMatch, reportBye,
\* swissPairings and deleteMatches calls every player has wins >= 0,
\* losses >= 0 and matches_played = wins + losses.
C7_CountersConsistent ==
    \A n \in DOMAIN players :
        /\ players[n].wins >= 0
        /\ players[n].losses >= 0
        /\ players[n].matches_played = players[n].wins + players[n].losses

\* C7's case: a player who has won and lost, and a bye on record.
C7_Witness ==
    /\ \E n \in DOMAIN players : players[n].wins > 0 /\ players[n].losses > 0
    /\ \E p \in Ids(players) : Byes(match_history, p) > 0

IsRecording == last.op \in {"reportMatch", "reportBye"}

\* The whole of one recorded match (loser = BYE: a bye) applied to the tables
\* ps, h: the winner's and the loser's counters raised and the row appended.
Recorded(ps, h, winner, loser) ==
    Store([n \in DOMAIN ps |->
              LET won  == IF ps[n].id = winner THEN 1 ELSE 0
                  lost == IF ps[n].id = loser THEN 1 ELSE 0
              IN  [id |-> ps[n].id,
                   wins |-> ps[n].wins + won,
                   losses |-> ps[n].losses + lost,
                   matches_played |-> ps[n].matches_played + won + lost]],
          h (+) SetToBag({<<winner, loser>>}))

LoserArg(call) == IF call.op = "reportBye" THEN BYE ELSE call.args[2]

\* C8: reportMatch and reportBye are atomic per match: whether the call
\* returns or fails part-way, the committed tables are either untouched or
\* hold the whole of the match (counters and MatchRecord together), never
\* counters without the record or the record without the counters.
C8_RecorderAtomic ==
    [][(last'.op \in {"reportMatch", "reportBye"}) =>
          \/ Committed' = Committed
          \/ Committed' = Recorded(players, match_history,
                                   last'.args[1], LoserArg(last'))]_vars

\* C8's case: a call with two registered players failed part-way.
C8_Witness ==
    /\ last.op = "reportMatch"
    /\ last.outcome = "error"
    /\ last.args[1] \in Ids(players)
    /\ last.args[2] \in Ids(players)
    /\ last.args[1] # last.args[2]

\* C9: when the winner id or the loser id passed to reportMatch, or the
\* winner id passed to reportBye, is not in the Store, the call fails with an
\* error and leaves the Store unchanged.
C9_UnknownPlayerRejected ==
    [][(/\ last'.op \in {"reportMatch", "reportBye"}
        /\ \E n \in DOMAIN last'.args : last'.args[n] \notin Ids(players))
          => last'.outcome = "error" /\ Committed' = Committed]_vars

\* C2: in the list one call of swissPairings returns, every registered player
\* who is not the round's bye recipient is in exactly one tuple, once; the bye
\* recipient, if any, is in no tuple and gains exactly one MatchRecord with
\* loser_id = -1 (nobody else gains one).
C2_EachPlayerOnce ==
    [][(last'.op = "swissPairings") =>
          LET byeTo == {last'.byes[n] : n \in DOMAIN last'.byes}
          IN  /\ last'.outcome = "ok" =>
                    /\ \A n \in DOMAIN Members(last'.ret) :
                           Members(last'.ret)[n] \in Ids(players)
                    /\ \A p \in Ids(players) :
                           Occurrences(last'.ret, p) = IF p \in byeTo THEN 0 ELSE 1
              /\ \A p \in Ids(players) :
                    Byes(match_history', p) =
                        Byes(match_history, p) + (IF p \in byeTo THEN 1 ELSE 0)
              /\ BagCardinality(match_history') =
                    BagCardinality(match_history) + Cardinality(byeTo)]_vars

\* C2's case: a round with a bye and, among its pairs, one made past a rematch.
C2_Witness ==
    /\ IsPairing /\ last.outcome = "ok"
    /\ Len(last.byes) = 1
    /\ Len(last.ret) >= 2
    /\ \E n \in DOMAIN last.steps : last.steps[n].j > 1

\* C3: swissPairings never makes a pair (p1, p2) with rematchCheck(p1, p2)
\* true when, with p1 at the head of the working sequence, some other
\* remaining player had not yet played p1.
C3_NoAvoidableRematch ==
    IsPairing =>
        \A n \in DOMAIN last.steps :
            LET work == last.steps[n].work
                p1 == work[1]
                p2 == work[last.steps[n].j + 1]
            IN  rematchCheck(match_history, p1, p2) =>
                    \A m \in 2..Len(work) : rematchCheck(match_history, p1, work[m])

\* C3's case: the head had already played the next player and was paired with
\* a later one it had not played.
C3_Witness ==
    /\ IsPairing
    /\ \E n \in DOMAIN last.steps :
          LET work == last.steps[n].work
          IN  /\ last.steps[n].j > 1
              /\ rematchCheck(match_history, work[1], work[2])
              /\ ~rematchCheck(match_history, work[1], work[last.steps[n].j + 1])

\* C4: swissPairings never records a bye for a player who has already had one
\* while some player of the standings has not had one yet.
C4_NoSecondByeWhileOthersWait ==
    IsPairing =>
        \A n \in DOMAIN last.byes :
            Byes(match_history, last.byes[n]) > 1 =>
                \A p \in Ids(players) : Byes(match_history, p) >= 1

\* C4's case: the bye went to a player without one, past players who had one.
C4_Witness ==
    /\ IsPairing
    /\ Len(last.byes) = 1
    /\ Byes(match_history, last.byes[1]) = 1
    /\ \E p \in Ids(players) \ {last.byes[1]} : Byes(match_history, p) >= 1
    /\ \E p \in Ids(players) : Byes(match_history, p) = 0

\* The place of player p in the standings s.
Rank(s, p) == CHOOSE n \in DOMAIN s : s[n][1] = p

\* C6: with an odd player count and some player without a bye, the bye goes
\* to the lowest-ranked player of the standings for whom checkBye is false
\* (everybody ranked below has had one); with 5 players all tied in round 1 it
\* goes to the last player in Store order, and in round 2 not to that player.
C6_ByeToLowestWithoutBye ==
    [][(/\ last'.op = "swissPairings"
        /\ N % 2 = 1
        /\ \E p \in Ids(players) : ~checkBye(match_history, p))
          => LET s == playerStandings(players, match_history)
                 byeTo == last'.byes[1]
             IN  /\ Len(last'.byes) = 1
                 /\ byeTo \in Ids(players)
                 /\ ~checkBye(match_history, byeTo)
                 /\ \A n \in DOMAIN s :
                       n > Rank(s, byeTo) => checkBye(match_history, s[n][1])
                 /\ N = 5 /\ i = 0 => byeTo = players[5].id
                 /\ N = 5 /\ i = 1 => byeTo # players[5].id]_vars

\* C6's case: round 2 of five players has been paired.
C6_Witness ==
    /\ IsPairing
    /\ N = 5
    /\ i = 1
    /\ Len(last.byes) = 1
    /\ Byes(match_history, players[5].id) = 1

\* C10: with 4 players and no history, round 1 pairs them in Store order,
\* (A,B),(C,D), with no bye; once both matches are reported, whatever the
\* outcomes, round 2 pairs the two winners together and the two losers together.
C10_FourPlayers ==
    [][(last'.op = "swissPairings" /\ N = 4 /\ i <= 1)
          => /\ last'.outcome = "ok"
             /\ last'.byes = <<>>
             /\ i = 0 => last'.ret = << <<players[1].id, players[2].id>>,
                                        <<players[3].id, players[4].id>> >>
             /\ i = 1 =>
                   /\ Len(last'.ret) = 2
                   /\ \E a \in DOMAIN last'.ret :
                         \A m \in 1..2 : winsOf(players, last'.ret[a][m]) = 1
                   /\ \E b \in DOMAIN last'.ret :
                         \A m \in 1..2 : winsOf(players, last'.ret[b][m]) = 0]_vars

\* C10's case: round 2 of four players has been paired.
C10_Witness ==
    /\ IsPairing /\ last.outcome = "ok"
    /\ N = 4
    /\ i = 1
    /\ Len(last.ret) = 2

\* What playerStandings returns in the current state.
Standings == playerStandings(players, match_history)

Omw == [p \in Ids(players) |-> omw(players, match_history, p)]

C14_HistoryAppendOnly ==
    [][(last'.op # "deleteMatches") => match_history \sqsubseteq match_history']_vars

\* C14's case: a match was recorded on top of an earlier record.
C14_Witness ==
    /\ last.op = "reportMatch"
    /\ last.outcome = "ok"
    /\ BagCardinality(match_history) >= 2

\* C15: in each pairing step the opponent of the head player is the
\* best-ranked remaining player the head has not played (every remaining
\* player ranked above the opponent is a rematch of the head); when every
\* remaining candidate is a rematch, the head is paired with the last player
\* of the working sequence.
C15_BestFreshOpponent ==
    IsPairing =>
        \A n \in DOMAIN last.steps :
            LET work == last.steps[n].work
                at == last.steps[n].j + 1
                played(m) == rematchCheck(match_history, work[1], work[m])
            IN  /\ at \in 2..Len(work)
                /\ \A m \in 2..(at - 1) : played(m)
                /\ (\E m \in 2..Len(work) : ~played(m)) => ~played(at)
                /\ (\A m \in 2..Len(work) : played(m)) => at = Len(work)

\* C15's case: a head with three candidates, all of them rematches.
C15_Witness ==
    /\ IsPairing
    /\ \E n \in DOMAIN last.steps :
          LET work == last.steps[n].work
          IN  /\ Len(work) >= 4
              /\ \A m \in 2..Len(work) : rematchCheck(match_history, work[1], work[m])
              /\ last.steps[n].j + 1 = Len(work)

\* C16: with an odd player count N >= 3 and every player of the standings
\* already given a bye, the bye scan of swissPairings still ends without
\* raising, records exactly one bye, and gives it to the lowest-ranked (last)
\* player of the standings.
C16_AllHadBye ==
    [][(/\ last'.op = "swissPairings"
        /\ N % 2 = 1 /\ N >= 3
        /\ \A p \in Ids(players) : checkBye(match_history, p))
          => \A s \in {playerStandings(players, match_history)} :
                 /\ last'.outcome = "ok"
                 /\ last'.byes = <<s[Len(s)][1]>>
                 /\ Byes(match_history', s[Len(s)][1]) =
                        Byes(match_history, s[Len(s)][1]) + 1
                 /\ BagCardinality(match_history') =
                        BagCardinality(match_history) + 1]_vars

\* C16's case: three players, each with a bye, and a second bye just given.
C16_Witness ==
    /\ IsPairing /\ last.outcome = "ok"
    /\ N = 3
    /\ Len(last.byes) = 1
    /\ Byes(match_history, last.byes[1]) = 2
    /\ \A p \in Ids(players) : Byes(match_history, p) >= 1

\* C17: swissPairings changes the Store only through the bye: with an even
\* player count the counters and the match history are unchanged; with an
\* odd one the only changes are one appended record (recipient, -1) and the
\* recipient's wins and matches_played raised by one, every other counter and
\* every existing record unchanged.
C17_OnlyTheByeIsWritten ==
    [][(last'.op = "swissPairings") =>
          IF N % 2 = 0
          THEN Committed' = Committed /\ last'.byes = <<>>
          ELSE \E p \in Ids(players) :
                  /\ last'.byes = <<p>>
                  /\ Committed' = Recorded(players, match_history, p, BYE)]_vars

\* C17's case: a round of five players, with matches on record, gave a bye.
C17_Witness ==
    /\ IsPairing /\ last.outcome = "ok"
    /\ N = 5
    /\ Len(last.byes) = 1
    /\ BagCardinality(match_history) >= 4

\* C17's case: a round of four players, with matches on record, was paired.
C17_WitnessEven ==
    /\ IsPairing /\ last.outcome = "ok"
    /\ N = 4
    /\ BagCardinality(match_history) >= 2

\* C18: for N >= 2 players, each complete round (one swissPairings call, then
\* one reportMatch per returned pair, either member winning) raises every
\* player's matches_played by exactly one: after r complete rounds of a fresh
\* tournament every player has matches_played = r.
C18_OneMatchPerRound ==
    (N >= 2 /\ pc \in {"pairing", "done"}) =>
        \A n \in DOMAIN players : players[n].matches_played = i

\* C18's case: an odd field has played every round (byes and forced rematches
\* included).
C18_Witness ==
    /\ pc = "done"
    /\ i = MaxRounds
    /\ N >= 3 /\ N % 2 = 1
    /\ \A n \in DOMAIN players : players[n].matches_played = MaxRounds

\* C19: the pairs swissPairings returns are in the order they were formed:
\* the first member of the k-th pair is the best-ranked player in no earlier
\* pair and not the bye recipient, so first members come in descending rank
\* order and each pair's first member is ranked above its second.
C19_PairsInRankOrder ==
    [][(last'.op = "swissPairings" /\ last'.outcome = "ok") =>
          \A s \in {playerStandings(players, match_history)} :
          \A ret \in {last'.ret} :
              \A k \in DOMAIN ret :
                  LET taken == {ret[m][a] : m \in 1..(k - 1), a \in 1..2}
                                 \cup {last'.byes[n] : n \in DOMAIN last'.byes}
                  IN  /\ ret[k][1] \in Ids(players) \ taken
                      /\ \A p \in Ids(players) \ taken :
                            Rank(s, ret[k][1]) <= Rank(s, p)
                      /\ Rank(s, ret[k][1]) < Rank(s, ret[k][2])
                      /\ k > 1 => Rank(s, ret[k - 1][1]) < Rank(s, ret[k][1])]_vars

\* C19's case: a bye, and a first pair made past the second-ranked player,
\* who then leads the second pair.
C19_Witness ==
    /\ IsPairing /\ last.outcome = "ok"
    /\ Len(last.byes) = 1
    /\ Len(last.ret) >= 2
    /\ last.steps[1].j > 1
    /\ last.ret[2][1] = last.steps[1].work[2]

\* The number of match_history rows whose column col (1: winner_id,
\* 2: loser_id) is id.
RowsWith(h, col, id) ==
    BagCardinality([r \in {x \in BagToSet(h) : x[col] = id} |-> CopiesIn(r, h)])

\* C20: after any sequence of completed registerPlayer, reportMatch, reportBye,
\* swissPairings and deleteMatches calls with valid player ids, each player's
\* wins is the number of match_history rows with the player as winner_id (byes
\* included) and each player's losses is the number of rows with the player as
\* loser_id.
C20_CountersAgreeWithHistory ==
    \A n \in DOMAIN players :
        /\ players[n].wins = RowsWith(match_history, 1, players[n].id)
        /\ players[n].losses = RowsWith(match_history, 2, players[n].id)

\* C20's case: a player with a bye and a lost match on record, just recorded.
C20_Witness ==
    /\ last.op \in {"reportMatch", "reportBye"} /\ last.outcome = "ok"
    /\ \E p \in Ids(players) :
          /\ Byes(match_history, p) > 0
          /\ RowsWith(match_history, 2, p) > 0
          /\ Row(players, p).wins = 1 /\ Row(players, p).losses = 1

====
